---- MODULE Spec2Model ----
(***************************************************************************)
(* DAT-AI-Agent: the DataAnchoringToken ledger (Solidity), the AIAgent     *)
(* access controller with its access cache (TypeScript) and the            *)
(* SecurityManager rate limiter (TypeScript).                              *)
(*                                                                         *)
(* Time is Date.now() in milliseconds; block.timestamp is the same clock   *)
(* in seconds.  Token amounts are Int so that a debit below zero is a      *)
(* state the checks can see.                                               *)
(***************************************************************************)
EXTENDS Integers, Sequences, FiniteSets, TLC

(***************************************************************************)
(* Bounds of the model.                                                    *)
(***************************************************************************)
MaxTokens == 2
MaxTicks == 2
MaxReq == 2

MaxLimit == 2

(***************************************************************************)
(* Program constants.                                                      *)
(***************************************************************************)
CACHE_DURATION == 60000

DEFAULT_WINDOW_MS == 60000

TickMs == CACHE_DURATION \div 2
MaxNow == MaxTicks * TickMs

(***************************************************************************)
(* Identities.  An address is a hex string; the chain and the agent's      *)
(* cache both see it case-insensitively (toLowerCase).                     *)
(***************************************************************************)
Addresses == {"0xAA", "0xaa", "0xbb"}

ToLowerCase(a) == IF a = "0xAA" THEN "0xaa" ELSE a

Accounts == {ToLowerCase(a) : a \in Addresses}

Owner == "0xowner"

\* Callers of the owner-only functions: the owner and another account.
Senders == {Owner, "0xbb"}

(***************************************************************************)
(* Inputs of createSubscriptionTier.  The owner creates the tiers of       *)
(* SUBSCRIPTION_TIERS in the order of their ids; durations (s) and quotas  *)
(* are scaled down so that expiry and exhaustion happen within the bounds. *)
(***************************************************************************)
SUBSCRIPTION_TIERS ==
    << [name |-> "7-Day Trial", duration |-> 30, price |-> 1, usageQuota |-> 1],
       [name |-> "Monthly Access", duration |-> 90, price |-> 1, usageQuota |-> 2],
       [name |-> "Lifetime Access", duration |-> 3650, price |-> 2, usageQuota |-> 3] >>

Values == {0, 2}

\* The tiers subscribers mint: the trial and the monthly one.
Mintable == {1, 2}

Amounts == 0..2

ShareChoices == {<<100>>, <<60, 40>>, <<50>>}

RECURSIVE SumSeq(_)
SumSeq(s) == IF s = <<>> THEN 0 ELSE Head(s) + SumSeq(Tail(s))

VARIABLES
    now,                \* Date.now(), ms
    subscriptionTiers,  \* tierId -> SubscriptionTier
    tierCount,
    tokenIds,           \* Counters.Counter _tokenIds
    tokenMetadata,      \* tokenId -> TokenMetadata
    balances,           \* tokenId -> holder (ERC1155 balance 1)
    userTokens,         \* account -> sequence of tokenIds, in mint order
    lastConsume,        \* outcome of the owner's consumeUsage call, if the last
                        \* step was one
    preRead,            \* a reader's last getUserSubscription result
    commitSum,          \* amounts debited for that account since that read
    contractOK,         \* AIAgent.contract and provider are usable
    accessCache,        \* AIAgent.accessCache: key -> entry
    req,                \* in-flight processQuery / verifyAccess calls
    lastVerify,         \* the verifyAccess that completed in the last step
    lastQuery,          \* the processQuery that returned in the last step
    rateLimitMap,       \* SecurityManager.rateLimitMap: key -> {count, resetTime}
    limits,             \* the (maxRequests, windowMs) the limiter is called with
    allowedAt,          \* key -> the times of the calls checkRateLimit allowed
    lastRate,           \* the checkRateLimit result returned in the last step
    suspiciousAddresses,  \* SecurityManager.suspiciousAddresses
    lastProof,          \* the proof issued last and its last verification
    lastCost,           \* the calculateUsageCost call made in the last step
    state,              \* WalletManager.state
    provider,           \* WalletManager.provider is not null
    connects,           \* connectWallet calls in flight
    pendingBalance,     \* addresses with an updateBalance of accountsChanged in flight
    lastConnect         \* what the connectWallet that resolved in the last step returned

ledgerVars == <<subscriptionTiers, tierCount, tokenIds, tokenMetadata, balances,
                userTokens, lastConsume>>

readerVars == <<preRead, commitSum>>

agentVars == <<contractOK, accessCache, req, lastVerify, lastQuery>>

rateVars == <<rateLimitMap, limits, allowedAt, lastRate, suspiciousAddresses>>

pureVars == <<lastProof, lastCost>>

walletVars == <<state, provider, connects, pendingBalance, lastConnect>>

vars == <<now, ledgerVars, readerVars, agentVars, rateVars, pureVars, walletVars>>

NoTx == [status |-> "none", user |-> "", amount |-> 0, tokenId |-> 0,
         event |-> <<>>, live |-> TRUE]

NoRead == [user |-> "", tokenId |-> 0, remainingUsage |-> 0, pure |-> FALSE]

blockTimestamp == now \div 1000

(***************************************************************************)
(* DataAnchoringToken                                                      *)
(***************************************************************************)
balanceOf(user, tokenId) == IF balances[tokenId] = user THEN 1 ELSE 0

CreateStatus(sender, nContributors, revenueShares) ==
    IF sender # Owner THEN "Ownable: caller is not the owner"
    ELSE IF nContributors # Len(revenueShares)
         THEN "Contributors and shares length mismatch"
    ELSE IF SumSeq(revenueShares) # 100 THEN "Revenue shares must sum to 100"
    ELSE "ok"

createSubscriptionTier(sender, name, duration, price, usageQuota, nContributors, revenueShares) ==
    LET st == CreateStatus(sender, nContributors, revenueShares) IN
    /\ IF st = "ok"
       THEN /\ tierCount' = tierCount + 1
            /\ subscriptionTiers' = Append(subscriptionTiers,
                   [name |-> name, duration |-> duration, price |-> price,
                    usageQuota |-> usageQuota, active |-> TRUE])
       ELSE UNCHANGED <<tierCount, subscriptionTiers>>
    /\ lastConsume' = NoTx
    /\ UNCHANGED <<tokenIds, tokenMetadata, balances, userTokens, readerVars>>

MintStatus(tierId, value) ==
    IF ~(tierId > 0 /\ tierId <= tierCount) THEN "Invalid tier ID"
    ELSE IF ~subscriptionTiers[tierId].active THEN "Subscription tier not active"
    ELSE IF ~(value >= subscriptionTiers[tierId].price) THEN "Insufficient payment"
    ELSE "ok"

mintDAT(sender, tierId, value) ==
    LET st == MintStatus(tierId, value) IN
    /\ tokenIds < MaxTokens
    /\ preRead' = IF st = "ok" /\ preRead.user = sender
                  THEN [preRead EXCEPT !.pure = FALSE] ELSE preRead
    /\ IF st = "ok"
       THEN LET tier == subscriptionTiers[tierId]
                newTokenId == tokenIds + 1 IN
            /\ tokenIds' = newTokenId
            /\ tokenMetadata' = Append(tokenMetadata,
                   [tierId |-> tierId,
                    expiryTime |-> blockTimestamp + tier.duration,
                    remainingUsage |-> tier.usageQuota])
            /\ balances' = Append(balances, sender)
            /\ userTokens' = [userTokens EXCEPT ![sender] = Append(@, newTokenId)]
       ELSE UNCHANGED <<tokenIds, tokenMetadata, balances, userTokens>>
    /\ lastConsume' = NoTx
    /\ UNCHANGED <<tierCount, subscriptionTiers, commitSum>>

\* hasValidSubscription's test without its remainingUsage > 0.
TokenUsableAnyQuota(user, tokenId) ==
    /\ balanceOf(user, tokenId) > 0
    /\ blockTimestamp < tokenMetadata[tokenId].expiryTime

TokenUsable(user, tokenId) ==
    /\ balanceOf(user, tokenId) > 0
    /\ blockTimestamp < tokenMetadata[tokenId].expiryTime
    /\ tokenMetadata[tokenId].remainingUsage > 0

RECURSIVE FirstUsable(_, _)
FirstUsable(user, tokens) ==
    IF tokens = <<>> THEN 0
    ELSE IF TokenUsable(user, Head(tokens)) THEN Head(tokens)
    ELSE FirstUsable(user, Tail(tokens))

hasValidSubscription(user) ==
    LET t == FirstUsable(user, userTokens[user]) IN
    IF t # 0 THEN <<TRUE, t>> ELSE <<FALSE, 0>>

getUserSubscription(user) ==
    LET hv == hasValidSubscription(user) IN
    IF hv[1]
    THEN LET metadata == tokenMetadata[hv[2]]
             tier == subscriptionTiers[metadata.tierId] IN
         [isValid |-> TRUE, tokenId |-> hv[2], expiryTime |-> metadata.expiryTime,
          remainingUsage |-> metadata.remainingUsage, tierName |-> tier.name]
    ELSE [isValid |-> FALSE, tokenId |-> 0, expiryTime |-> 0,
          remainingUsage |-> 0, tierName |-> ""]

\* consumeUsage without its quota require.
QuotaSufficientNoCheck(metadata, amount) == TRUE

\* require(metadata.remainingUsage >= amount, ...)
QuotaSufficient(metadata, amount) == metadata.remainingUsage >= amount

ConsumeStatus(sender, user, amount) ==
    IF sender # Owner THEN "Ownable: caller is not the owner"
    ELSE IF ~hasValidSubscription(user)[1] THEN "No valid subscription"
    ELSE IF ~QuotaSufficient(tokenMetadata[hasValidSubscription(user)[2]], amount)
         THEN "Insufficient usage quota"
    ELSE "ok"

\* A debit that credits the amount.
DebitRefund(remainingUsage, amount) == remainingUsage + amount

\* A debit of one unit too many.
DebitOffByOne(remainingUsage, amount) == remainingUsage - amount - 1

\* metadata.remainingUsage -= amount
Debit(remainingUsage, amount) == remainingUsage - amount

\* The state change of a consumeUsage transaction, whoever sends it.
consumeUsageTx(sender, user, amount) ==
    LET st == ConsumeStatus(sender, user, amount)
        tokenId == hasValidSubscription(user)[2] IN
    /\ IF st = "ok"
       THEN /\ tokenMetadata' = [tokenMetadata EXCEPT ![tokenId].remainingUsage =
                                     Debit(@, amount)]
            /\ commitSum' = IF preRead.user = user THEN commitSum + amount
                            ELSE commitSum
       ELSE UNCHANGED <<tokenMetadata, commitSum>>
    /\ UNCHANGED <<tierCount, subscriptionTiers, tokenIds, balances, userTokens,
                   preRead>>

\* What the caller of consumeUsage sees: the revert reason or success, the
\* token the call selected, the UsageConsumed event of a successful call, and
\* whether the debited token was unexpired at the time.
ConsumeReceipt(sender, user, amount) ==
    LET st == ConsumeStatus(sender, user, amount)
        tokenId == hasValidSubscription(user)[2] IN
    [status |-> st, user |-> user, amount |-> amount, tokenId |-> tokenId,
     event |-> IF st = "ok" THEN <<user, tokenId, amount>> ELSE <<>>,
     live |-> IF st = "ok" THEN blockTimestamp < tokenMetadata[tokenId].expiryTime
              ELSE TRUE]

consumeUsage(sender, user, amount) ==
    /\ consumeUsageTx(sender, user, amount)
    /\ lastConsume' = ConsumeReceipt(sender, user, amount)

\* A reader's view call, kept to compare a later read against.
ReadSubscription(user) ==
    LET sub == getUserSubscription(user) IN
    /\ preRead' = [user |-> user, tokenId |-> sub.tokenId,
                   remainingUsage |-> sub.remainingUsage, pure |-> TRUE]
    /\ commitSum' = 0
    /\ lastConsume' = NoTx
    /\ UNCHANGED <<subscriptionTiers, tierCount, tokenIds, tokenMetadata, balances,
                   userTokens>>

\* Time passes.
Elapse(ms) ==
    /\ now + ms <= MaxNow
    /\ now' = now + ms
    /\ preRead' = [preRead EXCEPT !.pure = FALSE]
    /\ lastConsume' = NoTx
    /\ UNCHANGED <<subscriptionTiers, tierCount, tokenIds, tokenMetadata, balances,
                   userTokens, commitSum>>

Tick == Elapse(TickMs)

(***************************************************************************)
(* AIAgent                                                                 *)
(*                                                                         *)
(* A call suspends where the code awaits the ledger: at the read of        *)
(* verifyAccess and at the transaction of consumeUsageWithLogging.  The    *)
(* code between two such points touches only the call's locals and the     *)
(* access cache, and is one step.                                          *)
(***************************************************************************)
\* A query, by the properties the agent reads: its length, whether it is
\* blank after trim(), whether its lower-cased text has a prohibited term, and
\* whether it includes "analysis" or "strategy" (case-sensitive).
Queries ==
    { [len |-> 20, blank |-> FALSE, prohibited |-> FALSE, marker |-> FALSE],
      [len |-> 150, blank |-> FALSE, prohibited |-> FALSE, marker |-> TRUE],
      [len |-> 3, blank |-> TRUE, prohibited |-> FALSE, marker |-> FALSE],
      [len |-> 250, blank |-> FALSE, prohibited |-> FALSE, marker |-> FALSE],
      [len |-> 1001, blank |-> FALSE, prohibited |-> FALSE, marker |-> FALSE],
      [len |-> 20, blank |-> FALSE, prohibited |-> TRUE, marker |-> FALSE] }

Req == 1..MaxReq

\* No entry for a key: never set, or deleted by processQuery.
NoEntry == [present |-> FALSE, deleted |-> FALSE]

Deleted == [present |-> FALSE, deleted |-> TRUE]

NoResult == [hasAccess |-> FALSE, tokenId |-> "", remainingUsage |-> 0,
             accessLevel |-> ""]

NoQuery == [len |-> 0, blank |-> TRUE, prohibited |-> FALSE, marker |-> FALSE]

\* The pending answer of contract.getUserSubscription.
NoAnswer == [status |-> "none", result |-> NoResult]

Idle == [pc |-> "idle", kind |-> "", userAddress |-> "", rd |-> NoAnswer,
         query |-> NoQuery, accessLevel |-> "", threw |-> FALSE,
         usageAmount |-> 0, commit |-> "none", entryAtStart |-> "",
         expiredAtStart |-> FALSE, raced |-> FALSE, racedWith |-> {},
         peerUnpaid |-> 0]

\* What the verifyAccess that completed in the last step did, and what the
\* processQuery that returned in the last step returned.
NoVerify == [key |-> "", entryAtStart |-> "", reads |-> 0, via |-> "",
             hasAccess |-> FALSE, remainingUsage |-> 0, executed |-> FALSE,
             cost |-> 0, ledgerRemaining |-> 0]

NoOutcome == [user |-> "", query |-> NoQuery, accessLevel |-> "", threw |-> FALSE,
              success |-> FALSE, error |-> "", hasResponse |-> FALSE,
              usageConsumed |-> 0, transactionHash |-> "", commit |-> "none",
              raced |-> FALSE, unpaidInRace |-> 0, expiredAtStart |-> FALSE,
              logs |-> <<>>,
              hadEntry |-> FALSE, invalidated |-> FALSE]

\* this.contract && this.provider && this.isValidProvider(this.provider)
HasContract == contractOK

\* !forceRefresh && cached && Date.now() - cached.timestamp < CACHE_DURATION
CacheHit(cached, forceRefresh) ==
    /\ ~forceRefresh
    /\ cached.present
    /\ now - cached.timestamp < CACHE_DURATION

\* A demo answer that grants nothing.
mockResultNoAccess == [hasAccess |-> FALSE, tokenId |-> "demo-1", remainingUsage |-> 0,
                       accessLevel |-> "premium"]

mockResult == [hasAccess |-> TRUE, tokenId |-> "demo-1", remainingUsage |-> 10,
               accessLevel |-> "premium"]

fallbackResult == [hasAccess |-> TRUE, tokenId |-> "fallback-1", remainingUsage |-> 5,
                   accessLevel |-> "basic"]

\* tierName.includes("Lifetime") / tierName.includes("Monthly")
AccessLevelOf(tierName) ==
    IF tierName = "Lifetime Access" THEN "enterprise"
    ELSE IF tierName = "Monthly Access" THEN "premium"
    ELSE "basic"

\* The AccessControlResult built from the ledger's answer.
LedgerResult(sub) ==
    [hasAccess |-> sub.isValid, tokenId |-> ToString(sub.tokenId),
     remainingUsage |-> sub.remainingUsage,
     accessLevel |-> AccessLevelOf(sub.tierName)]

CacheSet(key, result) ==
    [accessCache EXCEPT ![key] =
        [present |-> TRUE, result |-> result, timestamp |-> now]]

\* processQuery without the delete.
CacheKeep(cache, key) == cache

\* this.accessCache.delete(key)
CacheDelete(cache, key) == [cache EXCEPT ![key] = Deleted]

\* A validateQuery that accepts every query.
validateQueryAcceptAll(query, accessLevel) == "ok"

validateQuery(query, accessLevel) ==
    IF query.blank \/ query.len > 1000
    THEN "Query must be between 1-1000 characters."
    ELSE IF query.prohibited THEN "Query contains prohibited content."
    ELSE IF accessLevel = "basic" /\ query.len > 200
         THEN "Basic tier limited to 200 character queries. Upgrade for longer queries."
    ELSE "ok"

Max(a, b) == IF a >= b THEN a ELSE b

\* calculateUsageCost without the Math.max(1, ...) of the discounted tiers.
calculateUsageCostUnclamped(query, accessLevel) ==
    LET baseCost == 1 + (IF query.len > 100 THEN 1 ELSE 0)
                      + (IF query.marker THEN 1 ELSE 0) IN
    IF accessLevel = "enterprise" THEN (baseCost * 5) \div 10
    ELSE IF accessLevel = "premium" THEN (baseCost * 8) \div 10
    ELSE baseCost

\* Math.floor(baseCost * 0.8) and Math.floor(baseCost * 0.5) in integers: for
\* baseCost in 1..3 the doubles 0.8, 1.6, 2.4000000000000004 and 0.5, 1, 1.5
\* have these floors.
calculateUsageCost(query, accessLevel) ==
    LET baseCost == 1 + (IF query.len > 100 THEN 1 ELSE 0)
                      + (IF query.marker THEN 1 ELSE 0) IN
    IF accessLevel = "enterprise" THEN Max(1, (baseCost * 5) \div 10)
    ELSE IF accessLevel = "premium" THEN Max(1, (baseCost * 8) \div 10)
    ELSE baseCost

\* All of the subscriber's tokens are past their expiry time (and there is one).
OnlyExpired(user) ==
    /\ userTokens[user] # <<>>
    /\ \A i \in 1..Len(userTokens[user]) :
          blockTimestamp >= tokenMetadata[userTokens[user][i]].expiryTime

EntryState(cached, forceRefresh) ==
    IF forceRefresh THEN "forced"
    ELSE IF ~cached.present THEN (IF cached.deleted THEN "deleted" ELSE "absent")
    ELSE IF now - cached.timestamp < CACHE_DURATION THEN "fresh"
    ELSE "stale"

\* Other calls of the same subscriber that have passed the entitlement check
\* and whose commit has not landed yet.
InFlightPastCheck(r, key) ==
    {o \in Req \ {r} : /\ req[o].pc = "committing"
                       /\ ToLowerCase(req[o].userAddress) = key}

\* A rejection that gives no reason.
RejectedNoReason(call, error, logs) ==
    [NoOutcome EXCEPT !.user = ToLowerCase(call.userAddress),
                      !.query = call.query, !.accessLevel = call.accessLevel,
                      !.threw = call.threw,
                      !.logs = logs, !.expiredAtStart = call.expiredAtStart]

Rejected(call, error, logs) ==
    [NoOutcome EXCEPT !.user = ToLowerCase(call.userAddress), !.error = error,
                      !.query = call.query, !.accessLevel = call.accessLevel,
                      !.threw = call.threw,
                      !.logs = logs, !.expiredAtStart = call.expiredAtStart]

\* A processQuery without the catch: the call goes on.
CaughtIgnored(call, continued) == continued

\* The catch block of processQuery: the call that threw in the try block
\* does not go on, it logs PROCESSING_ERROR and returns the generic failure.
Caught(call, continued) ==
    [call |-> Idle, returned |-> TRUE,
     outcome |-> Rejected(call, "Failed to process query", <<"PROCESSING_ERROR">>)]

\* processQuery from the return of verifyAccess to its next suspension or its
\* return: the access, quota and validation checks, the capability
\* (processTEE, generateEnhancedAIResponse, generateVerificationProof), the
\* cost, and the start of consumeUsageWithLogging.  Gives the call's next
\* state and, when processQuery returns here, what it returns.  The query is
\* first read here, so it is drawn here.
Proceed(r, call0, accessCheck, query, throws) ==
    LET user == ToLowerCase(call0.userAddress)
        call == [call0 EXCEPT !.query = query,
                              !.accessLevel = accessCheck.accessLevel,
                              !.threw = FALSE]
        v == validateQuery(query, accessCheck.accessLevel)
        usageAmount == calculateUsageCost(query, accessCheck.accessLevel)
        continued ==
            [call |-> [call EXCEPT
                         !.pc = IF HasContract THEN "committing" ELSE "committed",
                         !.commit = IF HasContract THEN "sent" ELSE "demo",
                         !.rd = NoAnswer, !.entryAtStart = "",
                         !.threw = throws,
                         !.usageAmount = usageAmount,
                         !.raced = InFlightPastCheck(r, user) # {},
                         !.racedWith = InFlightPastCheck(r, user)],
             returned |-> FALSE, outcome |-> NoOutcome] IN
    IF ~accessCheck.hasAccess
    THEN [call |-> Idle, returned |-> TRUE,
          outcome |-> Rejected(call, "Access denied", <<"ACCESS_DENIED">>)]
    ELSE IF accessCheck.remainingUsage = 0
    THEN [call |-> Idle, returned |-> TRUE,
          outcome |-> Rejected(call, "Usage quota exceeded", <<"QUOTA_EXCEEDED">>)]
    ELSE IF v # "ok"
    THEN [call |-> Idle, returned |-> TRUE, outcome |-> Rejected(call, v, <<>>)]
    ELSE IF throws
    THEN Caught([call EXCEPT !.threw = TRUE], continued)
    ELSE continued

\* verifyAccess has returned accessCheck to its caller: a bare verifyAccess
\* call is over, processQuery proceeds.
Resume(r, call, via, accessCheck, query, throws) ==
    LET key == ToLowerCase(call.userAddress)
        p == Proceed(r, call, accessCheck, query, throws)
        executed == call.kind = "query" /\ ~p.returned IN
    /\ lastVerify' = [key |-> key, entryAtStart |-> call.entryAtStart,
                      reads |-> IF via \in {"ledger", "fallback", "fallback-uncached"}
                                THEN 1 ELSE 0,
                      via |-> via, hasAccess |-> accessCheck.hasAccess,
                      remainingUsage |-> accessCheck.remainingUsage,
                      executed |-> executed,
                      cost |-> IF executed THEN p.call.usageAmount ELSE 0,
                      ledgerRemaining |-> IF executed
                                          THEN getUserSubscription(key).remainingUsage
                                          ELSE 0]
    /\ IF call.kind = "verify"
       THEN /\ req' = [req EXCEPT ![r] = Idle]
            /\ lastQuery' = NoOutcome
       ELSE /\ req' = [o \in Req |->
                          IF o = r THEN p.call
                          ELSE IF ~p.returned /\ o \in InFlightPastCheck(r, key)
                          THEN [req[o] EXCEPT !.raced = TRUE,
                                              !.racedWith = @ \cup {r}]
                          ELSE req[o]]
            /\ lastQuery' = p.outcome

\* verifyAccess up to its first suspension: a cache hit and demo mode return
\* at once, otherwise the ledger read is issued.
BeginVerify(r, kind, userAddress, forceRefresh, query, throws) ==
    LET cacheKey == ToLowerCase(userAddress)
        cached == accessCache[cacheKey]
        call == [Idle EXCEPT !.kind = kind, !.userAddress = userAddress,
                             !.entryAtStart = EntryState(cached, forceRefresh),
                             !.expiredAtStart = OnlyExpired(cacheKey)] IN
    /\ req[r].pc = "idle"
    /\ IF CacheHit(cached, forceRefresh)
       THEN /\ Resume(r, call, "hit", cached.result, query, throws)
            /\ UNCHANGED accessCache
       ELSE IF ~HasContract
       THEN /\ accessCache' = CacheSet(cacheKey, mockResult)
            /\ Resume(r, call, "demo", mockResult, query, throws)
       ELSE /\ req' = [req EXCEPT ![r] = [call EXCEPT !.pc = "reading"]]
            /\ lastVerify' = NoVerify
            /\ lastQuery' = NoOutcome
            /\ UNCHANGED accessCache
    /\ UNCHANGED <<now, ledgerVars, readerVars, contractOK, rateVars, pureVars, walletVars>>

processQuery(r, userAddress, query, throws) ==
    BeginVerify(r, "query", userAddress, FALSE, query, throws)

verifyAccess(r, userAddress, forceRefresh) ==
    BeginVerify(r, "verify", userAddress, forceRefresh, NoQuery, FALSE)

\* The ledger answers contract.getUserSubscription, or the call throws.
LedgerRead(r, throws) ==
    /\ req[r].pc = "reading"
    /\ req' = [req EXCEPT ![r].pc = "readDone",
                          ![r].rd = IF throws
                                    THEN [status |-> "threw", result |-> NoResult]
                                    ELSE [status |-> "ok",
                                          result |-> LedgerResult(getUserSubscription(
                                              ToLowerCase(req[r].userAddress)))]]
    /\ lastVerify' = NoVerify
    /\ lastQuery' = NoOutcome
    /\ UNCHANGED <<now, ledgerVars, readerVars, contractOK, accessCache, rateVars,
                   pureVars, walletVars>>

\* verifyAccess resumes: the result (or the fallback of the catch block) is
\* cached with the current time and returned.
ReadReturn(r, query, throws) ==
    LET cacheKey == ToLowerCase(req[r].userAddress)
        threw == req[r].rd.status = "threw"
        result == IF threw THEN fallbackResult ELSE req[r].rd.result
        via == IF ~threw THEN "ledger"
               ELSE IF accessCache[cacheKey].present THEN "fallback"
               ELSE "fallback-uncached" IN
    /\ req[r].pc = "readDone"
    /\ accessCache' = CacheSet(cacheKey, result)
    /\ Resume(r, req[r], via, result, query, throws)
    /\ UNCHANGED <<now, ledgerVars, readerVars, contractOK, rateVars, pureVars, walletVars>>

\* contract.consumeUsage and tx.wait(): the ledger applies or reverts the
\* transaction, or the call fails before reaching it.
CommitTx(r, throws) ==
    LET user == ToLowerCase(req[r].userAddress) IN
    /\ req[r].pc = "committing"
    /\ IF throws
       THEN /\ req' = [req EXCEPT ![r].pc = "committed", ![r].commit = "threw"]
            /\ UNCHANGED <<ledgerVars, readerVars>>
       ELSE /\ consumeUsageTx(Owner, user, req[r].usageAmount)
            /\ UNCHANGED lastConsume
            /\ req' = [req EXCEPT ![r].pc = "committed",
                                  ![r].commit = ConsumeStatus(Owner, user,
                                                              req[r].usageAmount)]
    /\ lastVerify' = NoVerify
    /\ lastQuery' = NoOutcome
    /\ UNCHANGED <<now, contractOK, accessCache, rateVars, pureVars, walletVars>>

\* The hash consumeUsageWithLogging returns: the receipt's, or the one its
\* demo branch or its catch block makes up.
TxHashOf(commit) ==
    IF commit = "demo" THEN "demo_tx"
    ELSE IF commit = "ok" THEN "receipt"
    ELSE "fallback_tx"

Min(a, b) == IF a <= b THEN a ELSE b

\* The debit of a served call did not land on the ledger.
Unpaid(commit) == commit \notin {"ok", "demo"}

\* consumeUsageWithLogging has returned; the cache entry is deleted, the
\* query logged and success returned.
Finish(r) ==
    LET cacheKey == ToLowerCase(req[r].userAddress)
        call == req[r]
        unpaid == IF Unpaid(call.commit) THEN 1 ELSE 0 IN
    /\ call.pc = "committed"
    /\ accessCache' = CacheDelete(accessCache, cacheKey)
    /\ req' = [o \in Req |->
                  IF o = r THEN Idle
                  ELSE IF o \in call.racedWith
                  THEN [req[o] EXCEPT !.racedWith = @ \ {r},
                                      !.peerUnpaid = Min(@ + unpaid, MaxReq)]
                  ELSE req[o]]
    /\ lastQuery' =
          [user |-> cacheKey, query |-> call.query,
           accessLevel |-> call.accessLevel, threw |-> call.threw,
           success |-> TRUE, error |-> "", hasResponse |-> TRUE,
           usageConsumed |-> call.usageAmount,
           transactionHash |-> TxHashOf(call.commit), commit |-> call.commit,
           raced |-> call.raced, unpaidInRace |-> call.peerUnpaid + unpaid,
           expiredAtStart |-> call.expiredAtStart,
           logs |-> (IF call.commit \in {"demo", "ok"} THEN <<>>
                     ELSE <<"console.error: Error consuming usage">>)
                    \o <<"SUCCESSFUL_QUERY">>,
           hadEntry |-> accessCache[cacheKey].present,
           invalidated |-> ~accessCache'[cacheKey].present]
    /\ lastVerify' = NoVerify
    /\ UNCHANGED <<now, ledgerVars, readerVars, contractOK, rateVars, pureVars, walletVars>>

(***************************************************************************)
(* SecurityManager                                                         *)
(***************************************************************************)

\* Limits the limiter is configured with, and the time between its calls.
MaxRequestsChoices == 1..MaxLimit

\* Limits that differ between calls, zero and negative ones included.
AnyMaxRequests == (-1)..MaxLimit

\* The address that gets flagged.
Flagged == {"0xAA"}

WindowChoices == {TickMs, DEFAULT_WINDOW_MS}

RateStepMs == TickMs \div 2

NoWindow == [present |-> FALSE, count |-> 0, resetTime |-> 0]

NoLimits == [maxRequests |-> 0, windowMs |-> 0]

NoRate == [key |-> "", allowed |-> FALSE, remaining |-> 0, resetTime |-> 0,
           opened |-> FALSE]

\* The window of the key is missing or over.
WindowOver(current) == ~current.present \/ now > current.resetTime

LimitReached(current, maxRequests) == current.count >= maxRequests

\* A set that replaces the window of every key.
SetWindowOfAll(map, key, window) == [k \in DOMAIN map |-> window]

\* this.rateLimitMap.set(key, window)
SetWindow(map, key, window) == [map EXCEPT ![key] = window]

checkRateLimit(userAddress, maxRequests, windowMs) ==
    LET key == ToLowerCase(userAddress)
        current == rateLimitMap[key] IN
    /\ limits' = [maxRequests |-> maxRequests, windowMs |-> windowMs]
    /\ IF WindowOver(current)
       THEN /\ rateLimitMap' = SetWindow(rateLimitMap, key,
                   [present |-> TRUE, count |-> 1, resetTime |-> now + windowMs])
            /\ allowedAt' = [allowedAt EXCEPT ![key] = Append(@, now)]
            /\ lastRate' = [key |-> key, allowed |-> TRUE,
                            remaining |-> maxRequests - 1,
                            resetTime |-> now + windowMs, opened |-> TRUE]
       ELSE IF LimitReached(current, maxRequests)
       THEN /\ lastRate' = [key |-> key, allowed |-> FALSE, remaining |-> 0,
                            resetTime |-> current.resetTime, opened |-> FALSE]
            /\ UNCHANGED <<rateLimitMap, allowedAt>>
       ELSE /\ rateLimitMap' = [rateLimitMap EXCEPT ![key].count = @ + 1]
            /\ allowedAt' = [allowedAt EXCEPT ![key] = Append(@, now)]
            /\ lastRate' = [key |-> key, allowed |-> TRUE,
                            remaining |-> maxRequests - (current.count + 1),
                            resetTime |-> current.resetTime, opened |-> FALSE]
    /\ UNCHANGED <<now, ledgerVars, readerVars, agentVars, pureVars, walletVars,
                   suspiciousAddresses>>

\* this.suspiciousAddresses.add(address.toLowerCase())
flagSuspiciousAddress(address) ==
    /\ suspiciousAddresses' = suspiciousAddresses \cup {ToLowerCase(address)}
    /\ lastRate' = NoRate
    /\ UNCHANGED <<now, ledgerVars, readerVars, agentVars, pureVars, walletVars, rateLimitMap,
                   limits, allowedAt>>

(***************************************************************************)
(* Verification proofs.  A string is the sequence of its UTF-16 code       *)
(* units, a Buffer the sequence of its bytes.                              *)
(***************************************************************************)
MaxLen == 2

\* 'a', '"', '\', e-acute and a lone high surrogate.
Chars == {97, 34, 92, 233, 55357}

Strings(n) == UNION {[1..k -> Chars] : k \in 0..n}

RECURSIVE Flatten(_)
Flatten(ss) == IF ss = <<>> THEN <<>> ELSE Head(ss) \o Flatten(Tail(ss))

IsSurrogate(c) == c >= 55296 /\ c <= 57343

HexDigit(d) == IF d < 10 THEN 48 + d ELSE 87 + d

HexValue(c) ==
    IF c >= 48 /\ c <= 57 THEN c - 48
    ELSE IF c >= 97 /\ c <= 102 THEN c - 87
    ELSE IF c >= 65 /\ c <= 70 THEN c - 55
    ELSE -1

\* A character copied into the JSON text as it is.
QuoteCharRaw(c) == <<c>>

\* JSON.stringify of one character of a string (well-formed JSON.stringify:
\* a lone surrogate becomes its \uXXXX escape).
QuoteChar(c) ==
    IF c = 34 THEN <<92, 34>>
    ELSE IF c = 92 THEN <<92, 92>>
    ELSE IF IsSurrogate(c)
    THEN <<92, 117, HexDigit(c \div 4096), HexDigit((c \div 256) % 16),
           HexDigit((c \div 16) % 16), HexDigit(c % 16)>>
    ELSE <<c>>

JsonQuote(str) ==
    <<34>> \o Flatten([i \in 1..Len(str) |-> QuoteChar(str[i])]) \o <<34>>

\* JSON.stringify({query, response, timestamp, userAddress}); the timestamp
\* and the address are those of the first request of the model.
JsonStringify(proofData) ==
    Flatten(<< <<123, 34, 113, 117, 101, 114, 121, 34, 58>>, JsonQuote(proofData.query),
               <<44, 34, 114, 101, 115, 112, 111, 110, 115, 101, 34, 58>>,
               JsonQuote(proofData.response),
               <<44, 34, 116, 105, 109, 101, 115, 116, 97, 109, 112, 34, 58>>, <<48>>,
               <<44, 34, 117, 115, 101, 114, 65, 100, 100, 114, 101, 115, 115, 34, 58>>,
               JsonQuote(<<48, 120, 65, 65>>), <<125>> >>)

\* Buffer.from(string): UTF-8, a lone surrogate becomes U+FFFD.
Utf8Char(c) ==
    IF c < 128 THEN <<c>>
    ELSE IF c < 2048 THEN <<192 + (c \div 64), 128 + (c % 64)>>
    ELSE IF IsSurrogate(c) THEN <<239, 191, 189>>
    ELSE <<224 + (c \div 4096), 128 + ((c \div 64) % 64), 128 + (c % 64)>>

Utf8Encode(str) == Flatten([i \in 1..Len(str) |-> Utf8Char(str[i])])

\* buffer.toString(): UTF-8 decoding, a malformed byte becomes U+FFFD.
RECURSIVE Utf8Decode(_)
Utf8Decode(bytes) ==
    LET n == Len(bytes)
        Cont(i) == i <= n /\ bytes[i] >= 128 /\ bytes[i] < 192 IN
    IF n = 0 THEN <<>>
    ELSE IF bytes[1] < 128 THEN <<bytes[1]>> \o Utf8Decode(Tail(bytes))
    ELSE IF bytes[1] >= 194 /\ bytes[1] < 224 /\ Cont(2)
    THEN <<(bytes[1] - 192) * 64 + (bytes[2] - 128)>>
             \o Utf8Decode(SubSeq(bytes, 3, n))
    ELSE IF bytes[1] >= 224 /\ bytes[1] < 240 /\ Cont(2) /\ Cont(3)
    THEN <<(bytes[1] - 224) * 4096 + (bytes[2] - 128) * 64 + (bytes[3] - 128)>>
             \o Utf8Decode(SubSeq(bytes, 4, n))
    ELSE <<65533>> \o Utf8Decode(Tail(bytes))

BASE64 ==
    <<65, 66, 67, 68, 69, 70, 71, 72, 73, 74, 75, 76, 77, 78, 79, 80,
      81, 82, 83, 84, 85, 86, 87, 88, 89, 90, 97, 98, 99, 100, 101, 102,
      103, 104, 105, 106, 107, 108, 109, 110, 111, 112, 113, 114, 115, 116, 117, 118,
      119, 120, 121, 122, 48, 49, 50, 51, 52, 53, 54, 55, 56, 57, 43, 47>>

\* buffer.toString("base64")
RECURSIVE Base64Encode(_)
Base64Encode(bytes) ==
    LET n == Len(bytes)
        b1 == bytes[1]
        b2 == IF n >= 2 THEN bytes[2] ELSE 0
        b3 == IF n >= 3 THEN bytes[3] ELSE 0 IN
    IF n = 0 THEN <<>>
    ELSE << BASE64[(b1 \div 4) + 1],
            BASE64[((b1 % 4) * 16 + (b2 \div 16)) + 1],
            IF n >= 2 THEN BASE64[((b2 % 16) * 4 + (b3 \div 64)) + 1] ELSE 61,
            IF n >= 3 THEN BASE64[(b3 % 64) + 1] ELSE 61 >>
         \o (IF n > 3 THEN Base64Encode(SubSeq(bytes, 4, n)) ELSE <<>>)

\* The 6-bit value of a base64 character, -1 for any other character.
Sextet(c) ==
    IF c >= 65 /\ c <= 90 THEN c - 65
    ELSE IF c >= 97 /\ c <= 122 THEN c - 71
    ELSE IF c >= 48 /\ c <= 57 THEN c + 4
    ELSE IF c = 43 THEN 62
    ELSE IF c = 47 THEN 63
    ELSE -1

RECURSIVE SextetsToBytes(_)
SextetsToBytes(v) ==
    LET n == Len(v) IN
    IF n < 2 THEN <<>>
    ELSE <<v[1] * 4 + (v[2] \div 16)>>
         \o (IF n >= 3 THEN <<(v[2] % 16) * 16 + (v[3] \div 4)>> ELSE <<>>)
         \o (IF n >= 4 THEN <<(v[3] % 4) * 64 + v[4]>> ELSE <<>>)
         \o (IF n > 4 THEN SextetsToBytes(SubSeq(v, 5, n)) ELSE <<>>)

\* Buffer.from(string, "base64"): stops at the first '=', skips characters
\* outside the alphabet.
Base64Decode(str) ==
    LET stop == IF \E i \in 1..Len(str) : str[i] = 61
                THEN (CHOOSE i \in 1..Len(str) :
                         str[i] = 61 /\ \A j \in 1..(i - 1) : str[j] # 61) - 1
                ELSE Len(str)
        IsDigit(c) == Sextet(c) >= 0
        body == SelectSeq(SubSeq(str, 1, stop), IsDigit) IN
    SextetsToBytes([i \in 1..Len(body) |-> Sextet(body[i])])

\* string.replace(pattern, ""): the first occurrence is removed.
ReplaceFirst(str, pattern) ==
    LET m == Len(pattern)
        At(i) == i + m - 1 <= Len(str) /\ SubSeq(str, i, i + m - 1) = pattern IN
    IF \E i \in 1..Len(str) : At(i)
    THEN LET i == CHOOSE k \in 1..Len(str) : At(k) /\ \A j \in 1..(k - 1) : ~At(j)
         IN SubSeq(str, 1, i - 1) \o SubSeq(str, i + m, Len(str))
    ELSE str

\* JSON.parse of the characters of a string literal from text[i] on: the
\* value and the position after the closing quote, or a failure.
RECURSIVE ParseChars(_, _, _)
ParseChars(text, i, acc) ==
    IF i > Len(text) THEN [ok |-> FALSE, value |-> <<>>, next |-> i]
    ELSE IF text[i] = 34 THEN [ok |-> TRUE, value |-> acc, next |-> i + 1]
    ELSE IF text[i] < 32 THEN [ok |-> FALSE, value |-> <<>>, next |-> i]
    ELSE IF text[i] # 92 THEN ParseChars(text, i + 1, Append(acc, text[i]))
    ELSE IF i + 1 > Len(text) THEN [ok |-> FALSE, value |-> <<>>, next |-> i]
    ELSE IF text[i + 1] \in {34, 92, 47}
    THEN ParseChars(text, i + 2, Append(acc, text[i + 1]))
    ELSE IF /\ text[i + 1] = 117
            /\ i + 5 <= Len(text)
            /\ \A k \in 2..5 : HexValue(text[i + k]) >= 0
    THEN ParseChars(text, i + 6,
             Append(acc, HexValue(text[i + 2]) * 4096 + HexValue(text[i + 3]) * 256
                         + HexValue(text[i + 4]) * 16 + HexValue(text[i + 5])))
    ELSE [ok |-> FALSE, value |-> <<>>, next |-> i]

ParseString(text, i) ==
    IF i <= Len(text) /\ text[i] = 34 THEN ParseChars(text, i + 1, <<>>)
    ELSE [ok |-> FALSE, value |-> <<>>, next |-> i]

RECURSIVE SkipDigits(_, _)
SkipDigits(text, i) ==
    IF i <= Len(text) /\ text[i] >= 48 /\ text[i] <= 57
    THEN SkipDigits(text, i + 1) ELSE i

\* A JSON value of the object: a string literal or a run of digits.
ParseValue(text, i) ==
    IF i <= Len(text) /\ text[i] = 34 THEN ParseString(text, i)
    ELSE IF SkipDigits(text, i) > i
    THEN [ok |-> TRUE, value |-> <<-1>>, next |-> SkipDigits(text, i)]
    ELSE [ok |-> FALSE, value |-> <<>>, next |-> i]

\* JSON.parse of an object of strings and numbers, from the member at
\* text[i] on: the value of its "response" member (found so far: response),
\* or a failure.
RECURSIVE ParseMembers(_, _, _)
ParseMembers(text, i, response) ==
    LET key == ParseString(text, i)
        val == ParseValue(text, key.next + 1)
        found == IF key.value = <<114, 101, 115, 112, 111, 110, 115, 101>>
                 THEN [defined |-> TRUE, value |-> val.value]
                 ELSE response IN
    IF ~key.ok \/ key.next > Len(text) \/ text[key.next] # 58 \/ ~val.ok
       \/ val.next > Len(text)
    THEN [ok |-> FALSE, response |-> response]
    ELSE IF text[val.next] = 125 /\ val.next = Len(text)
    THEN [ok |-> TRUE, response |-> found]
    ELSE IF text[val.next] = 44 THEN ParseMembers(text, val.next + 1, found)
    ELSE [ok |-> FALSE, response |-> response]

JsonParse(text) ==
    IF Len(text) >= 2 /\ text[1] = 123
    THEN ParseMembers(text, 2, [defined |-> FALSE, value |-> <<>>])
    ELSE [ok |-> FALSE, response |-> [defined |-> FALSE, value |-> <<>>]]

\* generateVerificationProof: "ZKP_" + base64 of the JSON of the proof data.
ProofOf(query, content) ==
    <<90, 75, 80, 95>> \o Base64Encode(Utf8Encode(JsonStringify(
                   [query |-> query, response |-> content])))

\* verifyResponse: decodedProof.response === response, false when parsing
\* throws.
VerifyResponse(proof, response) ==
    LET decodedProof == JsonParse(Utf8Decode(Base64Decode(
                            ReplaceFirst(proof, <<90, 75, 80, 95>>)))) IN
    /\ decodedProof.ok
    /\ decodedProof.response.defined
    /\ decodedProof.response.value = response

NoProof == [stage |-> "none", query |-> <<>>, content |-> <<>>, proof |-> <<>>,
            response |-> <<>>, verified |-> FALSE]

ProofQueries == {<<97>>, <<34>>, <<55357>>}

\* One proof is issued in a behaviour and one response verified against it.
generateVerificationProof(query, content) ==
    /\ lastProof.stage = "none"
    /\ lastProof' = [stage |-> "issued", query |-> query, content |-> content,
                     proof |-> ProofOf(query, content), response |-> <<>>,
                     verified |-> FALSE]
    /\ UNCHANGED <<now, ledgerVars, readerVars, agentVars, rateVars, lastCost, walletVars>>

verifyResponse(response) ==
    /\ lastProof.stage = "issued"
    /\ lastProof' = [lastProof EXCEPT !.stage = "verified", !.response = response,
                                      !.verified = VerifyResponse(lastProof.proof,
                                                                  response)]
    /\ UNCHANGED <<now, ledgerVars, readerVars, agentVars, rateVars, lastCost, walletVars>>

(***************************************************************************)
(* WalletManager                                                           *)
(***************************************************************************)
MaxConn == 2

Conn == 1..MaxConn

WalletAddresses == {"0xa1", "0xa2"}

ChainIds == {1, 137}

\* The initial state of the manager, with "null" for null.
InitialState ==
    [isConnected |-> FALSE, address |-> "null", balance |-> "0", chainId |-> "null",
     provider |-> "null", isConnecting |-> FALSE, error |-> "null"]

NoConnect == [pc |-> "idle", address |-> "null", chainId |-> "null"]

\* The message of the error thrown when window.ethereum is missing.
NotFound == "metamask wallet not found. Please install the wallet extension."

NoResolved == [resolved |-> FALSE, success |-> FALSE, error |-> "null"]

\* this.state = { ...this.state, ...updates }
updateState(updates) ==
    [f \in DOMAIN state |-> IF f \in DOMAIN updates THEN updates[f] ELSE state[f]]

\* The catch block of connectWallet: the error is stored and returned.
ConnectFailed(c, errorMessage) ==
    /\ state' = updateState([isConnecting |-> FALSE, error |-> errorMessage])
    /\ connects' = [connects EXCEPT ![c] = NoConnect]
    /\ lastConnect' = [resolved |-> TRUE, success |-> FALSE, error |-> errorMessage]

WalletFrame == UNCHANGED <<now, ledgerVars, readerVars, agentVars, rateVars, pureVars>>

\* connectWallet up to its first await: without a wallet it fails at once,
\* otherwise eth_requestAccounts is sent.
connectWallet(c, hasEthereum) ==
    /\ connects[c].pc = "idle"
    /\ IF ~hasEthereum
       THEN /\ state' = [updateState([isConnecting |-> TRUE, error |-> "null"])
                            EXCEPT !.isConnecting = FALSE, !.error = NotFound]
            /\ connects' = connects
            /\ lastConnect' = [resolved |-> TRUE, success |-> FALSE, error |-> NotFound]
       ELSE /\ state' = updateState([isConnecting |-> TRUE, error |-> "null"])
            /\ connects' = [connects EXCEPT ![c].pc = "requesting"]
            /\ lastConnect' = NoResolved
    /\ UNCHANGED <<provider, pendingBalance>>
    /\ WalletFrame

\* eth_requestAccounts settles: rejected or without accounts the call fails,
\* otherwise this.provider is set and the signer is asked for.
RequestReturn(c, outcome) ==
    /\ connects[c].pc = "requesting"
    /\ IF outcome = "rejected"
       THEN ConnectFailed(c, "Connection rejected by user") /\ UNCHANGED provider
       ELSE IF outcome = "empty"
       THEN ConnectFailed(c, "Failed to connect wallet. Please try again.") /\ UNCHANGED provider
       ELSE /\ provider' = TRUE
            /\ connects' = [connects EXCEPT ![c].pc = "signer"]
            /\ lastConnect' = NoResolved
            /\ UNCHANGED state
    /\ UNCHANGED pendingBalance
    /\ WalletFrame

\* getSigner and getAddress settle: this.provider is read again for
\* getNetwork, which throws when a disconnect has set it to null.
SignerReturn(c, address, throws) ==
    /\ connects[c].pc = "signer"
    /\ IF throws \/ ~provider
       THEN ConnectFailed(c, "Failed to connect wallet. Please try again.")
       ELSE /\ connects' = [connects EXCEPT ![c].pc = "network", ![c].address = address]
            /\ lastConnect' = NoResolved
            /\ UNCHANGED state
    /\ UNCHANGED <<provider, pendingBalance>>
    /\ WalletFrame

\* getNetwork settles: the state becomes connected and updateBalance starts;
\* without a provider updateBalance returns at once and the call resolves.
NetworkReturn(c, chainId, throws) ==
    /\ connects[c].pc = "network"
    /\ IF throws
       THEN ConnectFailed(c, "Failed to connect wallet. Please try again.")
       ELSE /\ state' = updateState([isConnected |-> TRUE,
                                     address |-> connects[c].address,
                                     chainId |-> chainId, provider |-> "metamask",
                                     isConnecting |-> FALSE])
            /\ IF provider
               THEN /\ connects' = [connects EXCEPT ![c].pc = "balance"]
                    /\ lastConnect' = NoResolved
               ELSE /\ connects' = [connects EXCEPT ![c] = NoConnect]
                    /\ lastConnect' = [resolved |-> TRUE, success |-> TRUE,
                                       error |-> "null"]
    /\ UNCHANGED <<provider, pendingBalance>>
    /\ WalletFrame

\* The getBalance of connectWallet's updateBalance settles, and connectWallet
\* resolves with success.
BalanceReturn(c, throws) ==
    /\ connects[c].pc = "balance"
    /\ state' = IF throws THEN state ELSE updateState([balance |-> "1.0"])
    /\ connects' = [connects EXCEPT ![c] = NoConnect]
    /\ lastConnect' = [resolved |-> TRUE, success |-> TRUE, error |-> "null"]
    /\ UNCHANGED <<provider, pendingBalance>>
    /\ WalletFrame

\* The state after disconnect().
Disconnected ==
    updateState([isConnected |-> FALSE, address |-> "null", balance |-> "0",
                 chainId |-> "null", provider |-> "null", error |-> "null"])

\* disconnect(), also as the handler of the wallet's disconnect event.
disconnect ==
    /\ provider' = FALSE
    /\ state' = Disconnected
    /\ lastConnect' = NoResolved
    /\ UNCHANGED <<connects, pendingBalance>>
    /\ WalletFrame

\* The wallet's accountsChanged event: no account disconnects, another
\* account is stored and its balance asked for.
handleAccountsChanged(accounts) ==
    /\ IF accounts = <<>>
       THEN /\ provider' = FALSE
            /\ state' = Disconnected
            /\ UNCHANGED pendingBalance
       ELSE IF accounts[1] # state.address
       THEN /\ state' = updateState([address |-> accounts[1]])
            /\ pendingBalance' = IF provider THEN pendingBalance \cup {accounts[1]}
                                 ELSE pendingBalance
            /\ UNCHANGED provider
       ELSE UNCHANGED <<state, provider, pendingBalance>>
    /\ lastConnect' = NoResolved
    /\ UNCHANGED connects
    /\ WalletFrame

\* The wallet's chainChanged event.
handleChainChanged(chainId) ==
    /\ state' = updateState([chainId |-> chainId])
    /\ lastConnect' = NoResolved
    /\ UNCHANGED <<provider, connects, pendingBalance>>
    /\ WalletFrame

\* The getBalance of an updateBalance started by accountsChanged settles.
updateBalance(address, throws) ==
    /\ address \in pendingBalance
    /\ pendingBalance' = pendingBalance \ {address}
    /\ state' = IF throws THEN state ELSE updateState([balance |-> "1.0"])
    /\ lastConnect' = NoResolved
    /\ UNCHANGED <<provider, connects>>
    /\ WalletFrame

NoCost == [set |-> FALSE, query |-> NoQuery, accessLevel |-> "", cost |-> 0]

AccessLevels == {"basic", "premium", "enterprise"}

\* Query lengths around the thresholds 100, 200 and 1000 of the agent.
CostLens == {0, 1, 8, 12, 99, 100, 101, 200, 201, 1000, 1001}

\* Queries by length, with or without an expensive marker ("analysis",
\* "strategy": 8 characters) and a prohibited term (4 characters at least).
CostQueries ==
    { q \in [len : CostLens, blank : {FALSE}, prohibited : BOOLEAN, marker : BOOLEAN] :
        /\ q.len >= 1
        /\ q.len >= (IF q.marker THEN 8 ELSE 0) + (IF q.prohibited THEN 4 ELSE 0) }
    \cup {[len |-> 0, blank |-> TRUE, prohibited |-> FALSE, marker |-> FALSE]}

\* One call of calculateUsageCost.
PriceQuery(query, accessLevel) ==
    /\ lastCost' = [set |-> TRUE, query |-> query, accessLevel |-> accessLevel,
                    cost |-> calculateUsageCost(query, accessLevel)]
    /\ UNCHANGED <<now, ledgerVars, readerVars, agentVars, rateVars, lastProof, walletVars>>

Init ==
    /\ now = 0
    /\ subscriptionTiers = <<>>
    /\ tierCount = 0
    /\ tokenIds = 0
    /\ tokenMetadata = <<>>
    /\ balances = <<>>
    /\ userTokens = [a \in Accounts |-> <<>>]
    /\ lastConsume = NoTx
    /\ preRead = NoRead
    /\ commitSum = 0
    /\ contractOK \in BOOLEAN
    /\ accessCache = [a \in Accounts |-> NoEntry]
    /\ req = [r \in Req |-> Idle]
    /\ lastVerify = NoVerify
    /\ lastQuery = NoOutcome
    /\ rateLimitMap = [a \in Accounts |-> NoWindow]
    /\ limits = NoLimits
    /\ allowedAt = [a \in Accounts |-> <<>>]
    /\ lastRate = NoRate
    /\ suspiciousAddresses = {}
    /\ lastProof = NoProof
    /\ lastCost = NoCost
    /\ state = InitialState
    /\ provider = FALSE
    /\ connects = [c \in Conn |-> NoConnect]
    /\ pendingBalance = {}
    /\ lastConnect = NoResolved

\* The ledger alone: the owner, the subscribers and time.
LedgerFrame == UNCHANGED <<now, agentVars, rateVars, pureVars, walletVars>>

\* The agent plays no part in the ledger's and the limiter's behaviours.
InitDeployed == Init /\ contractOK


LedgerOps ==
    \/ \E sender \in Senders, n \in 1..2, revenueShares \in ShareChoices :
          /\ tierCount < Len(SUBSCRIPTION_TIERS)
          /\ LET t == SUBSCRIPTION_TIERS[tierCount + 1] IN
             createSubscriptionTier(sender, t.name, t.duration, t.price,
                                    t.usageQuota, n, revenueShares)
          /\ LedgerFrame
    \/ \E sender \in Accounts, tierId \in Mintable \cup {0}, value \in Values :
          mintDAT(sender, tierId, value) /\ LedgerFrame
    \/ \E sender \in Senders, user \in Accounts, amount \in Amounts :
          consumeUsage(sender, user, amount) /\ LedgerFrame
    \/ Tick /\ UNCHANGED <<agentVars, rateVars, pureVars, walletVars>>

SpecLedger == InitDeployed /\ [][LedgerOps]_vars

\* The ledger with a reader that compares reads of one subscriber.
Reader == "0xaa"

ReadsNext ==
    \/ /\ tierCount < Len(SUBSCRIPTION_TIERS)
       /\ LET t == SUBSCRIPTION_TIERS[tierCount + 1] IN
          createSubscriptionTier(Owner, t.name, t.duration, t.price,
                                 t.usageQuota, 1, <<100>>)
       /\ LedgerFrame
    \/ \E tierId \in Mintable :
          /\ tierId <= tierCount
          /\ mintDAT(Reader, tierId, 2)
          /\ LedgerFrame
    \/ \E amount \in Amounts : consumeUsage(Owner, Reader, amount) /\ LedgerFrame
    \/ ReadSubscription(Reader) /\ LedgerFrame
    \/ Tick /\ UNCHANGED <<agentVars, rateVars, pureVars, walletVars>>

SpecReads == InitDeployed /\ [][ReadsNext]_vars

\* The agent and its ledger: the owner creates the tiers, the subscriber
\* mints and time passes.
Callers == {"0xAA", "0xaa"}

EnvFrame ==
    /\ lastVerify' = NoVerify
    /\ lastQuery' = NoOutcome
    /\ UNCHANGED <<contractOK, accessCache, req, rateVars, pureVars, walletVars>>

AgentEnv ==
    \/ /\ tierCount + 1 \in Mintable
       /\ LET t == SUBSCRIPTION_TIERS[tierCount + 1] IN
          createSubscriptionTier(Owner, t.name, t.duration, t.price,
                                 t.usageQuota, 1, <<100>>)
       /\ UNCHANGED now
       /\ EnvFrame
    \/ \E a \in Callers, tierId \in Mintable :
          /\ tierId <= tierCount
          /\ mintDAT(ToLowerCase(a), tierId, 2)
          /\ UNCHANGED now
          /\ EnvFrame
    \/ Tick /\ EnvFrame

\* Calls made one after the other: processQuery with the checksummed
\* spelling of the subscriber's address, and verifyAccess with the lower-case
\* one, with and without forceRefresh.
First == {1}

AgentNext ==
    \/ AgentEnv
    \/ \E r \in First, q \in Queries, throws \in BOOLEAN :
          processQuery(r, "0xAA", q, throws)
    \/ \E r \in First, f \in BOOLEAN : verifyAccess(r, "0xaa", f)
    \/ \E r \in First, throws \in BOOLEAN : LedgerRead(r, throws)
    \/ \E r \in First, q \in Queries, throws \in BOOLEAN : ReadReturn(r, q, throws)
    \/ \E r \in First, throws \in BOOLEAN : CommitTx(r, throws)
    \/ \E r \in First : Finish(r)

Spec == Init /\ [][AgentNext]_vars

\* The calls under the scheduling of their awaits: a pending ledger read or
\* transaction settles (resolves or rejects), and a settled await resumes.
Fairness ==
    \A r \in First :
        /\ WF_vars(\E throws \in BOOLEAN : LedgerRead(r, throws))
        /\ WF_vars(\E q \in Queries, throws \in BOOLEAN : ReadReturn(r, q, throws))
        /\ WF_vars(\E throws \in BOOLEAN : CommitTx(r, throws))
        /\ WF_vars(Finish(r))

SpecLive == Spec /\ Fairness

\* The ledger around racing calls: the subscriber holds trial tokens, and the
\* calls are made within one block timestamp.
RaceEnv ==
    \/ /\ tierCount < Len(SUBSCRIPTION_TIERS)
       /\ LET t == SUBSCRIPTION_TIERS[tierCount + 1] IN
          createSubscriptionTier(Owner, t.name, t.duration, t.price,
                                 t.usageQuota, 1, <<100>>)
       /\ UNCHANGED now
       /\ EnvFrame
    \/ /\ 1 <= tierCount
       /\ mintDAT("0xaa", 1, 2)
       /\ UNCHANGED now
       /\ EnvFrame

\* processQuery calls of one subscriber in flight at the same time.
RaceNext ==
    \/ RaceEnv
    \/ \E r \in Req, q \in Queries, throws \in BOOLEAN :
          processQuery(r, "0xAA", q, throws)
    \/ \E r \in Req, throws \in BOOLEAN : LedgerRead(r, throws)
    \/ \E r \in Req, q \in Queries, throws \in BOOLEAN : ReadReturn(r, q, throws)
    \/ \E r \in Req, throws \in BOOLEAN : CommitTx(r, throws)
    \/ \E r \in Req : Finish(r)

SpecRace == Init /\ [][RaceNext]_vars

\* The limiter alone, called with one pair of limits throughout: calls of the
\* subscribers, flagged addresses, and time.
RateNext ==
    \/ \E a \in Addresses, maxRequests \in MaxRequestsChoices,
          windowMs \in WindowChoices :
          /\ limits \in {NoLimits, [maxRequests |-> maxRequests, windowMs |-> windowMs]}
          /\ checkRateLimit(a, maxRequests, windowMs)
    \/ \E a \in Flagged : flagSuspiciousAddress(a)
    \/ /\ Elapse(RateStepMs)
       /\ lastRate' = NoRate
       /\ UNCHANGED <<agentVars, rateLimitMap, limits, allowedAt, pureVars, walletVars,
                      suspiciousAddresses>>

SpecRate == InitDeployed /\ [][RateNext]_vars

\* The limiter, the flagged addresses and time in steps of one window: calls
\* with one limit throughout and windows of TickMs.
RateFrameNext ==
    \/ \E a \in Addresses, maxRequests \in MaxRequestsChoices :
          /\ limits \in {NoLimits, [maxRequests |-> maxRequests, windowMs |-> TickMs]}
          /\ checkRateLimit(a, maxRequests, TickMs)
    \/ \E a \in Flagged : flagSuspiciousAddress(a)
    \/ /\ Elapse(TickMs)
       /\ lastRate' = NoRate
       /\ UNCHANGED <<agentVars, rateLimitMap, limits, allowedAt, pureVars, walletVars,
                      suspiciousAddresses>>

SpecRateFrame == InitDeployed /\ [][RateFrameNext]_vars

\* The limiter called with limits that change from call to call.
RateAnyNext ==
    \/ \E a \in Addresses, maxRequests \in AnyMaxRequests, windowMs \in WindowChoices :
          checkRateLimit(a, maxRequests, windowMs)
    \/ /\ Elapse(RateStepMs)
       /\ lastRate' = NoRate
       /\ UNCHANGED <<agentVars, rateLimitMap, limits, allowedAt, pureVars, walletVars,
                      suspiciousAddresses>>

SpecRateAny == InitDeployed /\ [][RateAnyNext]_vars

\* Proofs alone: a proof is issued, responses are verified against it.
ProofNext ==
    \/ \E query \in ProofQueries, content \in Strings(MaxLen) :
          generateVerificationProof(query, content)
    \/ \E response \in Strings(MaxLen) : verifyResponse(response)

SpecProof == InitDeployed /\ [][ProofNext]_vars

\* Pricing alone: calculateUsageCost is called on queries and tiers.
CostNext ==
    \E query \in CostQueries, accessLevel \in AccessLevels :
        PriceQuery(query, accessLevel)

SpecCost == InitDeployed /\ [][CostNext]_vars

\* The wallet manager alone: connectWallet calls, disconnects, the wallet's
\* events and the settling of the awaited wallet requests, in any order.
WalletNext ==
    \/ \E c \in Conn, hasEthereum \in BOOLEAN : connectWallet(c, hasEthereum)
    \/ \E c \in Conn, outcome \in {"accounts", "empty", "rejected"} :
          RequestReturn(c, outcome)
    \/ \E c \in Conn, address \in WalletAddresses, throws \in BOOLEAN :
          SignerReturn(c, address, throws)
    \/ \E c \in Conn, chainId \in ChainIds, throws \in BOOLEAN :
          NetworkReturn(c, chainId, throws)
    \/ \E c \in Conn, throws \in BOOLEAN : BalanceReturn(c, throws)
    \/ disconnect
    \/ \E accounts \in {<<>>} \cup {<<a>> : a \in WalletAddresses} :
          handleAccountsChanged(accounts)
    \/ \E chainId \in ChainIds : handleChainChanged(chainId)
    \/ \E address \in WalletAddresses, throws \in BOOLEAN :
          updateBalance(address, throws)

SpecWallet == InitDeployed /\ [][WalletNext]_vars

(***************************************************************************)
(* Properties                                                              *)
(***************************************************************************)

\* C1: under any sequence of mintDAT and consumeUsage calls, every token's
\* remainingUsage is >= 0; a consumeUsage for more than the remaining quota
\* is rejected and debits nothing.
C1_QuotaNeverNegative ==
    \A t \in 1..tokenIds : tokenMetadata[t].remainingUsage >= 0

C1_Witness ==
    /\ lastConsume.status = "Insufficient usage quota"
    /\ lastConsume.amount > tokenMetadata[lastConsume.tokenId].remainingUsage
    /\ tokenMetadata[lastConsume.tokenId].remainingUsage > 0

\* C2 as stated: for a subscriber, however many tokens they hold, the
\* remaining quota read after N successful commits is the quota read before
\* minus the sum of the costs (no mint and no passing of time in between).
C2_ReadIsPreImageMinusSum ==
    (preRead.user # "" /\ preRead.pure) =>
        getUserSubscription(preRead.user).remainingUsage
            = preRead.remainingUsage - commitSum

\* C2, amended: the read after N successful commits equals the read before
\* minus the sum of the costs whenever it reports the same token as before,
\* and also for a subscriber holding at most one token (no mint and no passing
\* of time in between); when the commits exhaust the reported token the read
\* moves on to the subscriber's next usable token.
C2_SameTokenPreImageMinusSum ==
    LET sub == getUserSubscription(preRead.user) IN
    preRead.user # "" =>
        /\ (sub.isValid /\ sub.tokenId = preRead.tokenId) =>
               sub.remainingUsage = preRead.remainingUsage - commitSum
        /\ (preRead.pure /\ Len(userTokens[preRead.user]) <= 1) =>
               sub.remainingUsage = preRead.remainingUsage - commitSum

C2_Witness ==
    /\ preRead.user # ""
    /\ commitSum > 0
    /\ lastConsume.status = "ok"
    /\ getUserSubscription(preRead.user).isValid
    /\ getUserSubscription(preRead.user).tokenId = preRead.tokenId
    /\ Len(userTokens[preRead.user]) > 1

\* C3: a request whose cost exceeds the subscriber's remaining quota on the
\* ledger is rejected and the capability is never executed for it.
C3_OverQuotaNeverExecuted ==
    (contractOK /\ lastVerify.executed) =>
        lastVerify.cost <= lastVerify.ledgerRemaining

\* C4: when the ledger commit fails after the capability has executed,
\* processQuery does not report success with a transaction hash, and the
\* failure is logged as an anomaly carrying the request's session id.
C4_CommitFailureIsReported ==
    lastQuery.commit \in {"threw", "No valid subscription",
                          "Insufficient usage quota"} =>
        /\ ~lastQuery.success
        /\ lastQuery.transactionHash = ""
        /\ \E i \in 1..Len(lastQuery.logs) :
              lastQuery.logs[i] \in {"ACCESS_DENIED", "QUOTA_EXCEEDED",
                                     "PROCESSING_ERROR"}

\* C5: if the ledger read fails (the contract call throws, or the agent has
\* no usable provider or contract) and no cached entitlement exists,
\* verifyAccess grants no access and processQuery does not serve the request.
C5_UnavailablePropagates ==
    lastVerify.via \in {"demo", "fallback-uncached"} =>
        (~lastVerify.hasAccess /\ ~lastVerify.executed)

\* C6: of the processQuery calls of one subscriber that all passed the
\* entitlement check before any of their commits landed, at most one is
\* served without its debit landing, and a call whose commit the ledger
\* rejected is not reported as successful.
C6_RaceOverspendBounded ==
    (contractOK /\ lastQuery.raced) =>
        /\ lastQuery.unpaidInRace <= 1
        /\ (lastQuery.commit \in {"No valid subscription",
                                  "Insufficient usage quota"}
               => ~lastQuery.success)

\* C7: an expired entitlement is never usable: hasValidSubscription does not
\* report it, consumeUsage does not debit it, and no processQuery of a
\* subscriber whose only entitlement has expired returns success.
C7_ExpiredNeverUsable ==
    /\ \A u \in Accounts :
          hasValidSubscription(u)[1] =>
              blockTimestamp < tokenMetadata[hasValidSubscription(u)[2]].expiryTime
    /\ lastConsume.live
    /\ (contractOK /\ lastQuery.success) => ~lastQuery.expiredAtStart

\* C8: a verifyAccess without forceRefresh that finds an entry younger than
\* the TTL issues no ledger read, and the verifyAccess that follows the
\* invalidation of the entry issues exactly one.
C8_HitReadsNothingMissReadsOnce ==
    /\ lastVerify.entryAtStart = "fresh" => lastVerify.reads = 0
    /\ lastVerify.entryAtStart = "deleted" => lastVerify.reads = 1

\* C9: every successful quota commit is followed, before processQuery
\* returns, by the removal of the subscriber's cache entry, whatever its age,
\* so that the next verifyAccess is not a cache hit.
C9_CommitInvalidatesCache ==
    (lastQuery.success /\ lastQuery.commit = "ok") =>
        /\ lastQuery.invalidated
        /\ ~CacheHit(accessCache[lastQuery.user], FALSE)

C9_Witness ==
    /\ lastQuery.success
    /\ lastQuery.commit = "ok"
    /\ lastQuery.hadEntry
    /\ lastQuery.invalidated

\* The calls of a key that checkRateLimit allowed at a time t, lo <= t < hi
\* or lo <= t <= hi.
AllowedWithin(key, lo, hi, closed) ==
    Cardinality({i \in DOMAIN allowedAt[key] :
                    /\ lo <= allowedAt[key][i]
                    /\ IF closed THEN allowedAt[key][i] <= hi
                       ELSE allowedAt[key][i] < hi})

\* C10: for each key, in any time interval of length windowMs at
\* most maxRequests calls are allowed, and a call is denied only when
\* maxRequests calls were allowed in the interval of that length ending at it.
C10_AnyIntervalAllowsMaxRequests ==
    limits # NoLimits =>
        /\ \A key \in Accounts : \A i \in DOMAIN allowedAt[key] :
              AllowedWithin(key, allowedAt[key][i],
                            allowedAt[key][i] + limits.windowMs, FALSE)
                  <= limits.maxRequests
        /\ (lastRate.key # "" /\ ~lastRate.allowed) =>
               AllowedWithin(lastRate.key, now - limits.windowMs + 1, now, TRUE)
                   = limits.maxRequests

\* C11: every submitted request is checked against the rate limiter before
\* the entitlement check, so the limiter holds a window for the subscriber of
\* every processQuery that has returned and of every request whose capability
\* has executed; the request over the limit ends as rate-limited.
C11_RequestsPassTheLimiter ==
    /\ lastQuery.user # "" => rateLimitMap[lastQuery.user].present
    /\ lastVerify.executed => rateLimitMap[lastVerify.key].present

\* The subscriber holds an unexpired token, and the quota of every unexpired
\* token they hold is used up.
QuotaUsedUp(user) ==
    /\ \E i \in 1..Len(userTokens[user]) :
          blockTimestamp < tokenMetadata[userTokens[user][i]].expiryTime
    /\ \A i \in 1..Len(userTokens[user]) :
          blockTimestamp < tokenMetadata[userTokens[user][i]].expiryTime
              => tokenMetadata[userTokens[user][i]].remainingUsage = 0

\* C12: with a reachable ledger, the query a subscriber submits after their
\* quota has been used up (quota 1, one cost-1 query served) is rejected as
\* 'Usage quota exceeded' and with no other reason.
C12_SecondQueryIsQuotaExhausted ==
    (/\ contractOK
     /\ lastQuery.user # ""
     /\ lastVerify.via = "ledger"
     /\ QuotaUsedUp(lastQuery.user)
     /\ validateQuery(lastQuery.query, "basic") = "ok"
     /\ calculateUsageCost(lastQuery.query, "basic") = 1
     /\ ~lastQuery.success)
        => lastQuery.error = "Usage quota exceeded"

\* C13: a processQuery of a subscriber with no entitlement record returns
\* success = false with the access-denied error; the capability is not
\* executed and consumeUsage is not called.
C13_NoRecordNoAccess ==
    /\ (lastQuery.user # "" /\ userTokens[lastQuery.user] = <<>>) =>
          /\ ~lastQuery.success
          /\ lastQuery.error = "Access denied"
          /\ lastQuery.commit = "none"
    /\ (lastVerify.key # "" /\ userTokens[lastVerify.key] = <<>>) =>
          ~lastVerify.executed

\* C14: when the capability throws, processQuery returns the generic failure
\* and consumeUsage is not called for the request: no call is in flight after
\* its capability threw, and the returned call has sent no commit.
C14_ThrowingExecutionCostsNothing ==
    /\ \A r \in Req : ~req[r].threw
    /\ lastQuery.threw =>
          /\ ~lastQuery.success
          /\ ~lastQuery.hasResponse
          /\ lastQuery.error = "Failed to process query"
          /\ lastQuery.commit = "none"
          /\ lastQuery.usageConsumed = 0

C14_Witness ==
    /\ contractOK
    /\ lastQuery.threw
    /\ lastVerify.via = "ledger"
    /\ lastVerify.hasAccess
    /\ getUserSubscription(lastQuery.user).remainingUsage = lastVerify.remainingUsage
    /\ lastVerify.remainingUsage > 0

\* C15: usage is recorded exactly once per request: a processQuery that
\* returns success has debited the ledger once, by its usageConsumed, and one
\* that returns failure has sent no commit.
C15_RecordedExactlyOnce ==
    lastQuery.user # "" =>
        /\ (contractOK /\ lastQuery.success) => lastQuery.commit = "ok"
        /\ ~lastQuery.success => lastQuery.commit = "none"

\* C16: for every proof issued by generateVerificationProof for a query and
\* a response content, verifyResponse of the proof and a response is true
\* exactly when the response is that content.
C16_ProofBindsResponse ==
    lastProof.stage = "verified" =>
        (lastProof.verified <=> lastProof.response = lastProof.content)

C16_Witness ==
    /\ lastProof.stage = "verified"
    /\ lastProof.verified
    /\ lastProof.response = <<34, 55357>>
    /\ lastProof.query = <<34>>

\* C17: the cost of a query is an integer >= 1 fixed by the query and the
\* tier: 1, plus 1 for more than 100 characters, plus 1 for an expensive
\* marker, for basic; Math.floor of 0.8 times that for premium and of 0.5
\* times that for enterprise, but 1 at least (1, 1, 2 and 1, 1, 1 for bases
\* 1, 2, 3); so enterprise pays no more than premium, and premium no more
\* than basic, for the same query.
C17_CostIsDiscountedBaseAtLeastOne ==
    lastCost.set =>
        LET base == 1 + (IF lastCost.query.len > 100 THEN 1 ELSE 0)
                      + (IF lastCost.query.marker THEN 1 ELSE 0)
            premium == <<1, 1, 2>>
            enterprise == <<1, 1, 1>>
            expected == [basic |-> base, premium |-> premium[base],
                         enterprise |-> enterprise[base]] IN
        /\ lastCost.cost \in Nat /\ lastCost.cost >= 1
        /\ lastCost.cost = expected[lastCost.accessLevel]
        /\ expected.enterprise <= expected.premium
        /\ expected.premium <= expected.basic

\* A premium query of base cost 1, whose discounted cost 0.8 floors to 0, is
\* priced 1.
C17_Witness ==
    /\ lastCost.set
    /\ lastCost.accessLevel = "premium"
    /\ lastCost.query.len = 99 /\ ~lastCost.query.marker
    /\ lastCost.cost = 1

\* The queries C18 is about: empty after trimming, longer than 1000
\* characters (200 for the basic tier), or containing a prohibited term.
QueryIsInvalid(query, accessLevel) ==
    \/ query.blank
    \/ query.len > 1000
    \/ query.prohibited
    \/ accessLevel = "basic" /\ query.len > 200

ValidationErrors ==
    {"Query must be between 1-1000 characters.",
     "Query contains prohibited content.",
     "Basic tier limited to 200 character queries. Upgrade for longer queries."}

\* No call of processQuery with an invalid query is executed or reaches
\* consumeUsage, and the outcome of such a call has no response, no commit
\* and no usage.
InvalidNeverExecuted ==
    /\ \A r \in Req :
          req[r].pc \in {"committing", "committed"} =>
              ~QueryIsInvalid(req[r].query, req[r].accessLevel)
    /\ (lastQuery.user # "" /\ QueryIsInvalid(lastQuery.query, lastQuery.accessLevel)) =>
          /\ ~lastQuery.success /\ ~lastQuery.hasResponse /\ ~lastQuery.threw
          /\ lastQuery.commit = "none" /\ lastQuery.usageConsumed = 0
          /\ lastQuery.transactionHash = ""

\* C18 as stated: a processQuery call with an invalid query is rejected with
\* a validation error, is never executed, and consumes nothing.
C18_InvalidIsInvalidRequest ==
    /\ InvalidNeverExecuted
    /\ (lastQuery.user # "" /\ QueryIsInvalid(lastQuery.query, lastQuery.accessLevel)) =>
          lastQuery.error \in ValidationErrors

\* C18 amended: a processQuery call with an invalid query is never executed
\* and consumes nothing; it is rejected with the validation error of its
\* first failing rule when the access check grants access with remaining
\* usage, and with "Access denied" or "Usage quota exceeded" when it does
\* not, since the query is validated after those two checks.
C18_InvalidRejectedAfterEntitlement ==
    /\ InvalidNeverExecuted
    /\ (lastQuery.user # "" /\ QueryIsInvalid(lastQuery.query, lastQuery.accessLevel)) =>
          /\ lastVerify.key = lastQuery.user
          /\ lastQuery.error =
                IF ~lastVerify.hasAccess THEN "Access denied"
                ELSE IF lastVerify.remainingUsage = 0 THEN "Usage quota exceeded"
                ELSE IF lastQuery.query.blank \/ lastQuery.query.len > 1000
                THEN "Query must be between 1-1000 characters."
                ELSE IF lastQuery.query.prohibited
                THEN "Query contains prohibited content."
                ELSE "Basic tier limited to 200 character queries. Upgrade for longer queries."

\* A basic subscriber with remaining usage sends a query of more than 200
\* characters and gets the basic-tier validation error.
C18_Witness ==
    /\ lastQuery.user # ""
    /\ lastVerify.hasAccess /\ lastVerify.remainingUsage > 0
    /\ lastQuery.accessLevel = "basic"
    /\ lastQuery.query.len = 250
    /\ lastQuery.error = "Basic tier limited to 200 character queries. Upgrade for longer queries."

\* The positions in userTokens[user] of the subscriber's active entitlements:
\* owned, unexpired, quota > 0.
ActivePositions(user) ==
    {i \in 1..Len(userTokens[user]) :
        LET tokenId == userTokens[user][i] IN
        /\ balances[tokenId] = user
        /\ blockTimestamp < tokenMetadata[tokenId].expiryTime
        /\ tokenMetadata[tokenId].remainingUsage > 0}

\* C19: a consumeUsage call of the owner fails with "No valid subscription"
\* when the subscriber has no active (owned, unexpired, quota > 0)
\* entitlement, and with "Insufficient usage quota" when the amount exceeds
\* the remaining quota of the subscriber's first active entitlement; it
\* succeeds otherwise.  On every failure, the one of a call not sent by the
\* owner included, no token's remainingUsage changes and no UsageConsumed
\* event is emitted.
C19_ConsumeFailuresLeaveLedger ==
    [][LET rc == lastConsume'
           active == ActivePositions(rc.user)
           first == userTokens[rc.user][CHOOSE i \in active :
                                            \A j \in active : i <= j] IN
       rc.status # NoTx.status =>
          /\ rc.status # "ok" => (tokenMetadata' = tokenMetadata /\ rc.event = <<>>)
          /\ rc.status # "Ownable: caller is not the owner" =>
                rc.status =
                   IF active = {} THEN "No valid subscription"
                   ELSE IF rc.amount > tokenMetadata[first].remainingUsage
                   THEN "Insufficient usage quota"
                   ELSE "ok"]_vars

\* A call for 2 units against an active token with 1 unit left failed with
\* the insufficient-quota error.
C19_Witness ==
    /\ lastConsume.status = "Insufficient usage quota"
    /\ lastConsume.amount = 2
    /\ tokenMetadata[lastConsume.tokenId].remainingUsage = 1
    /\ lastConsume.event = <<>>

\* The steps a call goes through, in order: the entitlement check (idle,
\* reading, readDone), then validation, pricing and execution in one step
\* to the commit (committing, committed), from which the call returns.
StepOrder ==
    { <<"idle", "reading">>, <<"reading", "readDone">>,
      <<"idle", "committing">>, <<"readDone", "committing">>,
      <<"idle", "committed">>, <<"readDone", "committed">>,
      <<"committing", "committed">>,
      <<"readDone", "idle">>, <<"committed", "idle">> }

\* Completed: success with a response and the usage consumed.  Rejected:
\* failure with a reason and nothing else.
Completed(o) ==
    /\ o.success /\ o.hasResponse /\ o.usageConsumed >= 1 /\ o.error = ""

RejectedWithReason(o) ==
    /\ ~o.success /\ o.error # "" /\ ~o.hasResponse /\ o.usageConsumed = 0

C21_NoStaleWriteAfterInvalidation ==
    (/\ contractOK
     /\ lastVerify.via = "hit"
     /\ accessCache[lastVerify.key].result.tokenId \notin {"demo-1", "fallback-1"}
     /\ \A r \in Req : ~(req[r].pc = "committed" /\ req[r].commit = "ok"))
    => lastVerify.remainingUsage <= getUserSubscription(lastVerify.key).remainingUsage

\* C22: in every step, every minted token stays minted and keeps its tierId
\* and expiryTime, and its remainingUsage changes only in a consumeUsage that
\* succeeded on that token (called directly or as the commit of a
\* processQuery), by exactly the amount consumed, downwards; mints, tier
\* creations, reads, failed consumeUsage calls and calls of processQuery
\* without a successful commit leave it as it is.
C22_QuotaChangesOnlyBySuccessfulConsume ==
    [][/\ Len(tokenMetadata') >= Len(tokenMetadata)
       /\ \A t \in 1..Len(tokenMetadata) :
             /\ tokenMetadata'[t].tierId = tokenMetadata[t].tierId
             /\ tokenMetadata'[t].expiryTime = tokenMetadata[t].expiryTime
             /\ tokenMetadata'[t].remainingUsage # tokenMetadata[t].remainingUsage =>
                   /\ tokenMetadata'[t].remainingUsage < tokenMetadata[t].remainingUsage
                   /\ \/ /\ lastConsume'.status = "ok"
                         /\ lastConsume'.tokenId = t
                         /\ lastConsume'.event = <<lastConsume'.user, t, lastConsume'.amount>>
                         /\ tokenMetadata'[t].remainingUsage
                               = tokenMetadata[t].remainingUsage - lastConsume'.amount
                      \/ \E r \in Req :
                            /\ req[r].pc = "committing"
                            /\ req'[r].pc = "committed" /\ req'[r].commit = "ok"
                            /\ tokenMetadata'[t].remainingUsage
                                  = tokenMetadata[t].remainingUsage - req[r].usageAmount
             /\ tokenMetadata'[t].remainingUsage >= 0]_vars

\* One of two minted tokens was debited by a successful consumeUsage, the
\* other still holds the quota of its tier.
C22_Witness ==
    /\ Len(tokenMetadata) = 2
    /\ lastConsume.status = "ok"
    /\ lastConsume.amount >= 1
    /\ \E t \in 1..2 :
          /\ t # lastConsume.tokenId
          /\ tokenMetadata[t].remainingUsage
                = subscriptionTiers[tokenMetadata[t].tierId].usageQuota
    /\ tokenMetadata[lastConsume.tokenId].remainingUsage
          < subscriptionTiers[tokenMetadata[lastConsume.tokenId].tierId].usageQuota

\* C23: a checkRateLimit call starts a fresh window (count 1, reset time
\* now + windowMs) exactly when the key has no window or now has reached the
\* window's reset time, the instant of the reset time included; and after a
\* call that returned allowed the stored count is at most maxRequests.
C23_FreshWindowFromResetTimeOn ==
    [][lastRate'.key # "" =>
          LET current == rateLimitMap[lastRate'.key]
              stored == rateLimitMap'[lastRate'.key] IN
          /\ lastRate'.opened <=> (~current.present \/ now >= current.resetTime)
          /\ lastRate'.opened =>
                /\ stored.count = 1
                /\ stored.resetTime = now + limits'.windowMs
          /\ lastRate'.allowed => stored.count <= limits'.maxRequests]_vars

\* C24: a verifyAccess that starts on a miss, with forceRefresh, or on an
\* entry whose age is at least the TTL reads the ledger once and stores the
\* ledger's result under the subscriber's key with the current timestamp, in
\* place of any prior entry; an entry of age >= TTL is never returned
\* without a ledger read.
C24_MissReadsLedgerAndStores ==
    (/\ lastVerify.key # ""
     /\ lastVerify.entryAtStart \in {"forced", "absent", "deleted", "stale"})
    => /\ lastVerify.reads = 1
       /\ lastVerify.via = "ledger"
       /\ accessCache[lastVerify.key].present
       /\ accessCache[lastVerify.key].timestamp = now
       /\ accessCache[lastVerify.key].result.hasAccess = lastVerify.hasAccess
       /\ accessCache[lastVerify.key].result.remainingUsage = lastVerify.remainingUsage

\* The entries logSecurityEvent and logSuccessfulQuery write, by eventType;
\* each carries context.userAddress and context.sessionId.
EventTypes == {"ACCESS_DENIED", "QUOTA_EXCEEDED", "PROCESSING_ERROR", "SUCCESSFUL_QUERY"}

\* C25: a processQuery call that returns (completed, access denied, quota
\* exhausted, invalid request or execution failed) has written exactly one
\* log entry with the subscriber and the session id.
C25_OneLogEntryPerOutcome ==
    lastQuery.user # "" =>
        Cardinality({i \in DOMAIN lastQuery.logs : lastQuery.logs[i] \in EventTypes}) = 1

\* C26: getUserSubscription answers isValid = true only with the first token
\* in mint order that the user owns, that is unexpired and has quota left,
\* and (false, 0, 0, 0, "") when there is none; so no entitlement read from
\* the ledger, returned or cached, has hasAccess with remainingUsage = 0, and
\* no processQuery returns "Usage quota exceeded".
C26_ValidMeansQuotaLeft ==
    /\ \A user \in Accounts :
          LET sub == getUserSubscription(user)
              active == ActivePositions(user) IN
          IF active = {}
          THEN sub = [isValid |-> FALSE, tokenId |-> 0, expiryTime |-> 0,
                      remainingUsage |-> 0, tierName |-> ""]
          ELSE LET first == userTokens[user][CHOOSE i \in active :
                                                \A j \in active : i <= j] IN
               /\ sub.isValid
               /\ sub.tokenId = first
               /\ sub.remainingUsage = tokenMetadata[first].remainingUsage
               /\ sub.remainingUsage > 0
               /\ sub.expiryTime = tokenMetadata[first].expiryTime
    /\ lastVerify.via = "ledger" =>
          ~(lastVerify.hasAccess /\ lastVerify.remainingUsage = 0)
    /\ \A key \in Accounts :
          accessCache[key].present =>
              ~(accessCache[key].result.hasAccess
                /\ accessCache[key].result.remainingUsage = 0)
    /\ lastQuery.error # "Usage quota exceeded"

\* The ledger was read for a subscriber whose only token is used up, and
\* answered without access.
C26_Witness ==
    /\ lastVerify.via = "ledger"
    /\ ~lastVerify.hasAccess
    /\ lastQuery.error = "Access denied"
    /\ userTokens[lastVerify.key] # <<>>
    /\ \A i \in 1..Len(userTokens[lastVerify.key]) :
          LET tokenId == userTokens[lastVerify.key][i] IN
          /\ tokenMetadata[tokenId].remainingUsage = 0
          /\ blockTimestamp < tokenMetadata[tokenId].expiryTime

\* C27: without a usable contract every verifyAccess answers hasAccess with
\* remainingUsage 10 without a ledger read, no call reaches the ledger, and
\* every processQuery with a query valid for the premium level whose
\* execution does not throw succeeds with a made-up demo transaction; and a
\* ledger read that throws stores the access-granting fallback entitlement
\* (remainingUsage 5) with the current time, which every hit within the TTL
\* returns.
C27_DemoAndFallbackGrantAccess ==
    /\ ~contractOK =>
          /\ lastVerify.key # "" =>
                /\ lastVerify.hasAccess /\ lastVerify.remainingUsage = 10
                /\ lastVerify.reads = 0
          /\ \A r \in Req :
                /\ req[r].pc \in {"idle", "committed"}
                /\ req[r].commit \in {"none", "demo"}
          /\ (/\ lastQuery.user # ""
              /\ ~QueryIsInvalid(lastQuery.query, "premium")
              /\ ~lastQuery.threw) =>
                /\ lastQuery.success /\ lastQuery.hasResponse
                /\ lastQuery.usageConsumed >= 1
                /\ lastQuery.commit = "demo"
                /\ lastQuery.transactionHash = "demo_tx"
    /\ lastVerify.via \in {"fallback", "fallback-uncached"} =>
          /\ lastVerify.hasAccess /\ lastVerify.remainingUsage = 5
          /\ accessCache[lastVerify.key]
                = [present |-> TRUE, result |-> fallbackResult, timestamp |-> now]
    /\ (/\ lastVerify.via = "hit"
        /\ accessCache[lastVerify.key].result.tokenId = "fallback-1") =>
          /\ lastVerify.hasAccess /\ lastVerify.remainingUsage = 5
          /\ now - accessCache[lastVerify.key].timestamp < CACHE_DURATION

\* In demo mode an address that holds no token, and was answered from the
\* cache before, completed a query.
C27_Witness ==
    /\ ~contractOK
    /\ lastQuery.success
    /\ lastQuery.commit = "demo"
    /\ lastQuery.hadEntry
    /\ userTokens[lastQuery.user] = <<>>

\* C28: a checkRateLimit call writes at most the window of its own key, a
\* lower-cased address: the windows of all other keys, the suspicious
\* addresses and the agent's access cache are as before, and a denied call
\* leaves the whole map as it was.
C28_LimiterTouchesOnlyItsKey ==
    [][lastRate'.key # "" =>
          /\ lastRate'.key = ToLowerCase(lastRate'.key)
          /\ \A k \in DOMAIN rateLimitMap :
                k # lastRate'.key => rateLimitMap'[k] = rateLimitMap[k]
          /\ suspiciousAddresses' = suspiciousAddresses
          /\ accessCache' = accessCache
          /\ ~lastRate'.allowed => rateLimitMap' = rateLimitMap]_vars

\* A call for 0xaa was denied while 0xbb has a window of its own and an
\* address is flagged.
C28_Witness ==
    /\ lastRate.key = "0xaa"
    /\ ~lastRate.allowed
    /\ rateLimitMap["0xbb"].present
    /\ rateLimitMap["0xbb"].resetTime # rateLimitMap["0xaa"].resetTime
    /\ suspiciousAddresses # {}

\* C29: whatever maxRequests and windowMs a checkRateLimit call is made with,
\* its remaining is >= 0; when it allows, the stored count is <= maxRequests
\* and remaining = maxRequests - count; when it denies, remaining = 0; and
\* its resetTime is that of the key's stored window.
C29_ResultMatchesWindow ==
    lastRate.key # "" =>
        LET stored == rateLimitMap[lastRate.key] IN
        /\ lastRate.remaining >= 0
        /\ lastRate.allowed =>
              /\ stored.count <= limits.maxRequests
              /\ lastRate.remaining = limits.maxRequests - stored.count
        /\ ~lastRate.allowed => lastRate.remaining = 0
        /\ lastRate.resetTime = stored.resetTime

\* C30: in every state of the wallet manager, isConnected = false implies
\* address = null, balance = "0", chainId = null and provider = null; and
\* when a connectWallet call has resolved, isConnecting = false and error is
\* non-null exactly when it resolved with success = false.
C30_DisconnectedStateIsEmpty ==
    /\ ~state.isConnected =>
          /\ state.address = "null" /\ state.balance = "0"
          /\ state.chainId = "null" /\ state.provider = "null"
    /\ lastConnect.resolved =>
          /\ ~state.isConnecting
          /\ state.error # "null" <=> ~lastConnect.success

====
